---- MODULE Spec2Model ----
(***************************************************************************)
(* A model of the self-improvement feedback loop of SelfImprovingAI        *)
(* (src/self_improving_ai.py): the performance metrics store, the learning *)
(* store, the local-knowledge lookup, the external solution search, the    *)
(* solution synthesis and the reflection pass.                             *)
(*                                                                         *)
(* Conventions                                                             *)
(*  - A real number is an exact fraction <<n, d>> in lowest terms, d > 0.  *)
(*  - A text (problem, error signature) is a sequence of characters; an    *)
(*    operation type and an insight description are strings.               *)
(*  - The md5 digest of _generate_id is modelled by the pair it hashes,    *)
(*    <<text, clock reading>>: two ids are equal exactly when text and     *)
(*    clock reading are equal (digest collisions are left out).            *)
(*  - json.dumps(v) is the tagged value <<"json", v>>.                     *)
(*  - A SQL table is the sequence of its rows in rowid order.              *)
(***************************************************************************)
EXTENDS Integers, Sequences, FiniteSets, TLC

----------------------------------------------------------------------------
(* Bounds of the model *)

MaxTicks == 1
MaxStarted == 2
MaxEntries == 1
MaxInsights == 3
MaxUses == 2
MaxStored == 3

(* Clock: seconds since the start of day 0. The first reading is taken     *)
(* TickSeconds before midnight, so that one tick crosses a date line.      *)
TickSeconds == 40
SecondsPerDay == 86400
StartClock == SecondsPerDay - TickSeconds

----------------------------------------------------------------------------
(* Exact fractions *)

RECURSIVE GCD(_, _)
GCD(a, b) == IF b = 0 THEN a ELSE GCD(b, a % b)

(* The fraction n/d in lowest terms (n and d are evaluated once, then reduced) *)
Frac(n, d) ==
    CHOOSE f \in {<<x \div GCD(x, y), y \div GCD(x, y)>> : x \in {n}, y \in {d}} : TRUE

Zero == <<0, 1>>
One == <<1, 1>>
FromInt(n) == <<n, 1>>

FLess(a, b) == a[1] * b[2] < b[1] * a[2]
FAdd(a, b) == Frac(a[1] * b[2] + b[1] * a[2], a[2] * b[2])
FMulInt(a, k) == Frac(a[1] * k, a[2])
FDivInt(a, k) == Frac(a[1], a[2] * k)

RECURSIVE SumFrac(_)
SumFrac(s) == IF s = <<>> THEN Zero ELSE FAdd(s[1], SumFrac(Tail(s)))

RECURSIVE SumInt(_)
SumInt(s) == IF s = <<>> THEN 0 ELSE s[1] + SumInt(Tail(s))

(* SQL AVG over a non-empty sequence of fractions *)
Avg(s) == FDivInt(SumFrac(s), Len(s))

----------------------------------------------------------------------------
(* Sequences as tables *)

Take(s, n) == SubSeq(s, 1, IF Len(s) < n THEN Len(s) ELSE n)

(* text LIKE '%sub%' for texts without wildcard characters *)
Contains(text, sub) ==
    \E i \in 0..(Len(text) - Len(sub)) : SubSeq(text, i + 1, i + Len(sub)) = sub

----------------------------------------------------------------------------
(* Input domains *)

OpTypes == {"X", "Y"}
None == "None"
ErrorMessages == {None, "boom"}
Qualities == {<<9, 10>>}
Confidences == {Zero}
TokenCounts == {0}
ReportDays == {0, 7}

VARIABLES
    clock,                  \* the reading of time.time() / datetime.now()
    session,                \* self.session is set
    performance_history,    \* self.performance_history
    success_rate_cache,     \* self.success_rate_cache
    performance_metrics,    \* table performance_metrics
    learning_entries,       \* table learning_entries
    error_patterns,         \* table error_patterns
    optimization_insights,  \* table optimization_insights
    closed,                 \* history: the end_operation calls that persisted a record
    outcomes,               \* history: per entry id, the outcomes applied to it
    missed,                 \* history: problems whose miss path has completed
    ending,                 \* the end_operation in progress: its position and locals
    recording,              \* the record_solution_success in progress: the row it read
    reflection_loop,        \* the thread of start_reflection_loop: its position
    searching,              \* the search_error_solution in progress: its position and locals
    processing,             \* CompleteUltimateApp.processing
    workers,                \* the threads running process_complete_workflow
    users,                  \* UserAuthSystem: table users
    user_sessions,          \* UserAuthSystem: table user_sessions
    active_sessions,        \* UserAuthSystem.active_sessions
    suggestions,            \* history: the calls of _calculate_suggestion_priority
    ret                     \* the last call: name, arguments, result, collaborators invoked

vars == <<clock, session, performance_history, success_rate_cache,
          performance_metrics, learning_entries, error_patterns,
          optimization_insights, closed, outcomes, missed,
          ending, recording, reflection_loop, searching, processing, workers,
          users, user_sessions, active_sessions, suggestions, ret>>

stores == <<performance_metrics, learning_entries, error_patterns, optimization_insights>>

(* The calls in progress and the reflection thread *)
threads == <<ending, recording, reflection_loop>>

(* The application window and its workers *)
app == <<processing, workers>>

(* The user and session store *)
auth == <<users, user_sessions, active_sessions>>

(* Everything of SelfImprovingAI and of its callers' bookkeeping *)
learner == <<clock, session, performance_history, success_rate_cache, stores, closed,
             outcomes, missed, threads, searching>>

----------------------------------------------------------------------------
(* Helper methods *)

_generate_id(text, now) == <<text, now>>

Day(t) == t \div SecondsPerDay

(* timestamp > datetime('now', '-N days'): the stored text is           *)
(* 'YYYY-MM-DDTHH:MM:SS.ffffff', the bound is 'YYYY-MM-DD HH:MM:SS'; the *)
(* comparison is on text, and 'T' sorts after ' ', so a row is kept      *)
(* exactly when its date is not before the date of the bound.            *)
InWindow(timestamp, now, days) == Day(timestamp) >= Day(now - days * SecondsPerDay)

NoCall == [op |-> "none"]

(* No call of the method is in progress *)
NotRunning == [stage |-> "none"]

----------------------------------------------------------------------------
(* Pre-existing rows of error_patterns: no method of the class writes the  *)
(* table, and CREATE TABLE IF NOT EXISTS keeps the rows of an existing     *)
(* database file.                                                          *)

KnownPatterns ==
    << [pattern_id |-> "p1", error_signature |-> <<"a", "b">>, error_type |-> "link",
        best_solution |-> "rebuild", avg_fix_time |-> 5],
       [pattern_id |-> "p2", error_signature |-> <<"b">>, error_type |-> "compile",
        best_solution |-> "include header", avg_fix_time |-> 2] >>

ErrorPatternTables == {<<>>, KnownPatterns}

Init ==
    /\ clock = StartClock
    /\ session = FALSE
    /\ performance_history = <<>>
    /\ success_rate_cache = <<>>
    /\ performance_metrics = <<>>
    /\ learning_entries = <<>>
    /\ error_patterns \in ErrorPatternTables
    /\ optimization_insights = <<>>
    /\ closed = <<>>
    /\ outcomes = <<>>
    /\ missed = {}
    /\ ending = NotRunning
    /\ recording = NotRunning
    /\ reflection_loop = [state |-> "IDLE", last |-> None]
    /\ searching = NotRunning
    /\ processing = FALSE
    /\ workers = <<>>
    /\ users = <<>>
    /\ user_sessions = <<>>
    /\ active_sessions = <<>>
    /\ suggestions = <<>>
    /\ ret = NoCall

(* The clock moves on between calls. *)
Tick ==
    /\ clock < StartClock + MaxTicks * TickSeconds
    /\ clock' = clock + TickSeconds
    /\ ret' = NoCall
    /\ UNCHANGED <<session, performance_history, success_rate_cache, stores,
                   closed, outcomes, missed, threads,
                   searching, app, auth, suggestions>>

----------------------------------------------------------------------------
(* Performance tracking *)

start_operation(operation_type) ==
    LET operation_id == _generate_id(operation_type, clock) IN
    /\ Len(performance_history) < MaxStarted
    /\ performance_history' = Append(performance_history,
            [operation_id |-> operation_id,
             operation_type |-> operation_type,
             start_time |-> clock])
    /\ ret' = [op |-> "start_operation", value |-> operation_id]
    /\ UNCHANGED <<clock, session, success_rate_cache, stores, closed, outcomes, missed, threads,
                   searching, auth, suggestions>>

(* INSERT OR IGNORE INTO optimization_insights: the primary key is insight_id *)
_create_improvement_insight(insights, description, impact_score, now) ==
    LET insight_id == _generate_id(description, now) IN
    IF \E i \in 1..Len(insights) : insights[i].insight_id = insight_id
    THEN insights
    ELSE Append(insights,
            [insight_id |-> insight_id,
             insight_type |-> "performance",
             description |-> description,
             impact_score |-> impact_score,
             implementation_count |-> 0,
             avg_improvement |-> Zero,
             created_at |-> now])

OfType(rows, operation_type) ==
    SelectSeq(rows, LAMBDA r : r.operation_type = operation_type)

Successes(rows) == SumInt([i \in 1..Len(rows) |-> IF rows[i].success THEN 1 ELSE 0])
AvgDuration(rows) == Avg([i \in 1..Len(rows) |-> FromInt(rows[i].duration)])
AvgQuality(rows) == Avg([i \in 1..Len(rows) |-> rows[i].quality_score])
AvgConfidence(rows) == Avg([i \in 1..Len(rows) |-> rows[i].confidence_score])

SuccessRate(rows) == IF Len(rows) > 0 THEN Frac(Successes(rows), Len(rows)) ELSE Zero

LowSuccessThreshold == <<7, 10>>
SlowThreshold == 30

(* Mutant: the rule names no operation type *)
LowSuccessUntyped(operation_type) == "Low success rate"

LowSuccess(operation_type) == "Low success rate for " \o operation_type
SlowPerformance(operation_type) == "Slow performance for " \o operation_type

(* The cache entry _analyze_performance computes over every row of the type *)
CacheEntry(rows) ==
    [success_rate |-> SuccessRate(rows),
     avg_duration |-> AvgDuration(rows),
     avg_quality |-> AvgQuality(rows),
     total_operations |-> Len(rows)]

(* Mutant: only the duration rule is applied *)
AnalyzeDurationOnly(insights, rows, operation_type, now) ==
    IF FLess(FromInt(SlowThreshold), AvgDuration(rows))
    THEN _create_improvement_insight(insights, SlowPerformance(operation_type),
                                     AvgDuration(rows), now)
    ELSE insights

(* The insights table after _analyze_performance has applied its two rules *)
_analyze_performance(insights, rows, operation_type, now) ==
    LET low == IF FLess(SuccessRate(rows), LowSuccessThreshold)
               THEN _create_improvement_insight(insights, LowSuccess(operation_type),
                                                SuccessRate(rows), now)
               ELSE insights
    IN IF FLess(FromInt(SlowThreshold), AvgDuration(rows))
       THEN _create_improvement_insight(low, SlowPerformance(operation_type),
                                        AvgDuration(rows), now)
       ELSE low

HasId(rows, operation_id) == \E i \in 1..Len(rows) : rows[i].operation_id = operation_id

(* The row _store_metrics inserts for the PerformanceMetrics end_operation builds *)
MetricsRow(operation_id, operation, end_time, success, error_message, confidence_score, quality_score, tokens_used) ==
    [operation_id |-> operation_id,
     operation_type |-> operation.operation_type,
     start_time |-> operation.start_time,
     end_time |-> end_time,
     duration |-> end_time - operation.start_time,
     success |-> success,
     error_message |-> error_message,
     confidence_score |-> confidence_score,
     tokens_used |-> tokens_used,
     quality_score |-> quality_score,
     user_feedback |-> None,
     timestamp |-> end_time]

(* Mutant: an id that is not found falls back on the last started operation *)
FindOperationOrLast(history, operation_id) ==
    LET hits == SelectSeq(history, LAMBDA op : op.operation_id = operation_id) IN
    IF hits = <<>> /\ history # <<>> THEN <<history[Len(history)]>> ELSE hits

(* next((op for op in history if op["operation_id"] == operation_id), None): *)
(* the matches in list order; the first is taken, none is <<>>              *)
FindOperation(history, operation_id) ==
    SelectSeq(history, LAMBDA op : op.operation_id = operation_id)

end_operation(operation_id, success, error_message, confidence_score, quality_score, tokens_used) ==
    LET found == FindOperation(performance_history, operation_id)
        \* whether start_operation has returned this id
        started == \E i \in 1..Len(performance_history) :
                      performance_history[i].operation_id = operation_id
    IN
    IF found = <<>>
    THEN /\ ret' = [op |-> "end_operation", started |-> started,
                    stored |-> FALSE, raised |-> None]
         /\ UNCHANGED <<clock, session, performance_history, success_rate_cache,
                        stores, closed, outcomes, missed, threads,
                   searching, auth, suggestions>>
    ELSE IF HasId(performance_metrics, operation_id)
    THEN \* INSERT hits the primary key: sqlite3.IntegrityError leaves the call
         /\ ret' = [op |-> "end_operation", started |-> started,
                    stored |-> FALSE, raised |-> "IntegrityError"]
         /\ UNCHANGED <<clock, session, performance_history, success_rate_cache,
                        stores, closed, outcomes, missed, threads,
                   searching, auth, suggestions>>
    ELSE LET metrics == MetricsRow(operation_id, found[1], clock, success, error_message,
                                   confidence_score, quality_score, tokens_used)
             rows == Append(performance_metrics, metrics)
             ofType == OfType(rows, metrics.operation_type)
             insights == _analyze_performance(optimization_insights, ofType,
                                              metrics.operation_type, clock)
         IN /\ Len(insights) <= MaxInsights
            /\ performance_metrics' = rows
            /\ success_rate_cache' =
                   [t \in DOMAIN success_rate_cache \cup {metrics.operation_type} |->
                       IF t = metrics.operation_type THEN CacheEntry(ofType)
                       ELSE success_rate_cache[t]]
            /\ optimization_insights' = insights
            /\ closed' = Append(closed, [operation_type |-> metrics.operation_type,
                                         success |-> success])
            /\ ret' = [op |-> "end_operation", started |-> started,
                       stored |-> TRUE, raised |-> None]
            /\ UNCHANGED <<clock, session, performance_history, learning_entries,
                           error_patterns, outcomes, missed, threads,
                   searching, auth, suggestions>>

(* end_operation step by step, as another thread sees it: the lookup in      *)
(* performance_history, the INSERT and commit of _store_metrics, and then   *)
(* _analyze_performance.                                                    *)
EndLookup(operation_id, success, error_message, confidence_score, quality_score, tokens_used) ==
    LET found == FindOperation(performance_history, operation_id) IN
    /\ ending = NotRunning
    /\ found # <<>>
    /\ ending' = [stage |-> "store",
                  metrics |-> MetricsRow(operation_id, found[1], clock, success, error_message,
                                         confidence_score, quality_score, tokens_used)]
    /\ ret' = [op |-> "end_operation_step", step |-> "lookup"]
    /\ UNCHANGED <<clock, session, performance_history, success_rate_cache, stores,
                   closed, outcomes, missed, recording, reflection_loop,
                   searching, app, auth, suggestions>>

EndStore ==
    /\ ending.stage = "store"
    /\ IF HasId(performance_metrics, ending.metrics.operation_id)
       THEN /\ ending' = NotRunning
            /\ ret' = [op |-> "end_operation", started |-> TRUE,
                       stored |-> FALSE, raised |-> "IntegrityError"]
            /\ UNCHANGED <<performance_metrics, closed>>
       ELSE /\ performance_metrics' = Append(performance_metrics, ending.metrics)
            /\ closed' = Append(closed, [operation_type |-> ending.metrics.operation_type,
                                         success |-> ending.metrics.success])
            /\ ending' = [ending EXCEPT !.stage = "analyze"]
            /\ ret' = [op |-> "end_operation_step", step |-> "store"]
    /\ UNCHANGED <<clock, session, performance_history, success_rate_cache,
                   learning_entries, error_patterns, optimization_insights,
                   outcomes, missed, recording, reflection_loop,
                   searching, app, auth, suggestions>>

EndAnalyze ==
    LET operation_type == ending.metrics.operation_type
        ofType == OfType(performance_metrics, operation_type)
        insights == _analyze_performance(optimization_insights, ofType, operation_type, clock)
    IN
    /\ ending.stage = "analyze"
    /\ Len(insights) <= MaxInsights
    /\ success_rate_cache' =
           [t \in DOMAIN success_rate_cache \cup {operation_type} |->
               IF t = operation_type THEN CacheEntry(ofType) ELSE success_rate_cache[t]]
    /\ optimization_insights' = insights
    /\ ending' = NotRunning
    /\ ret' = [op |-> "end_operation", started |-> TRUE, stored |-> TRUE, raised |-> None]
    /\ UNCHANGED <<clock, session, performance_history, performance_metrics,
                   learning_entries, error_patterns, closed, outcomes, missed,
                   recording, reflection_loop,
                   searching, app, auth, suggestions>>

ClockReadings == {StartClock + k * TickSeconds : k \in 0..MaxTicks}

OperationIds == {_generate_id(t, c) : t \in OpTypes, c \in ClockReadings}

StartOperation ==
    /\ \E t \in OpTypes : start_operation(t)
    /\ UNCHANGED app

BeginEndOperation ==
    \E id \in OperationIds, success \in BOOLEAN, error_message \in ErrorMessages,
       confidence_score \in Confidences, quality_score \in Qualities,
       tokens_used \in TokenCounts :
        EndLookup(id, success, error_message, confidence_score, quality_score, tokens_used)

EndOperation ==
    \E id \in OperationIds, success \in BOOLEAN, error_message \in ErrorMessages,
       confidence_score \in Confidences, quality_score \in Qualities,
       tokens_used \in TokenCounts :
        /\ end_operation(id, success, error_message, confidence_score, quality_score,
                         tokens_used)
        /\ UNCHANGED app

----------------------------------------------------------------------------
(* Analytics and reporting *)

TypesIn(rows) == {rows[i].operation_type : i \in 1..Len(rows)}

Recent(rows, now, days) == SelectSeq(rows, LAMBDA r : InWindow(r.timestamp, now, days))

(* Mutant: the aggregates are taken over the rows of every type *)
OperationReportUngrouped(rows, operation_type) ==
    [type |-> operation_type,
     total_count |-> Len(rows),
     success_count |-> Successes(rows),
     success_rate |-> IF Len(rows) > 0 THEN Frac(Successes(rows), Len(rows)) ELSE Zero,
     avg_duration_sec |-> AvgDuration(rows),
     avg_quality |-> AvgQuality(rows),
     avg_confidence |-> AvgConfidence(rows)]

(* One element of report["operations"]: a GROUP BY row of the windowed table *)
OperationReport(rows, operation_type) ==
    LET g == OfType(rows, operation_type) IN
    [type |-> operation_type,
     total_count |-> Len(g),
     success_count |-> Successes(g),
     success_rate |-> IF Len(g) > 0 THEN Frac(Successes(g), Len(g)) ELSE Zero,
     avg_duration_sec |-> AvgDuration(g),
     avg_quality |-> AvgQuality(g),
     avg_confidence |-> AvgConfidence(g)]

Used(entries) == SelectSeq(entries, LAMBDA e : e.times_used > 0)

AvgEffectiveness(entries) ==
    IF entries = <<>> THEN <<None>>
    ELSE Avg([i \in 1..Len(entries) |-> entries[i].effectiveness_score])

(* Mutant: the aggregate is taken over the started operations *)
PerformanceReportOverHistory(days, now) ==
    [period_days |-> days,
     generated_at |-> now,
     operations |-> {[type |-> t,
                      total_count |-> Len(OfType(performance_history, t)),
                      success_count |-> 0,
                      success_rate |-> Zero,
                      avg_duration_sec |-> Zero,
                      avg_quality |-> Zero,
                      avg_confidence |-> Zero] : t \in TypesIn(performance_history)},
     learning_stats |-> [active_entries |-> 0, avg_effectiveness |-> <<None>>]]

PerformanceReport(days, now) ==
    LET rows == Recent(performance_metrics, now, days) IN
    [period_days |-> days,
     generated_at |-> now,
     operations |-> {OperationReport(rows, t) : t \in TypesIn(rows)},
     learning_stats |-> [active_entries |-> Len(Used(learning_entries)),
                         avg_effectiveness |-> AvgEffectiveness(Used(learning_entries))]]

get_performance_report(days) ==
    /\ ret' = [op |-> "get_performance_report", value |-> PerformanceReport(days, clock)]
    /\ UNCHANGED <<clock, session, performance_history, success_rate_cache, stores,
                   closed, outcomes, missed, threads,
                   searching, app, auth, suggestions>>

GetPerformanceReport == \E days \in ReportDays : get_performance_report(days)

----------------------------------------------------------------------------
(* The aiohttp session *)

setup_session ==
    /\ session' = TRUE
    /\ ret' = [op |-> "setup_session"]
    /\ UNCHANGED <<clock, performance_history, success_rate_cache, stores,
                   closed, outcomes, missed, threads,
                   searching, app, auth, suggestions>>

----------------------------------------------------------------------------
(* Reflection *)

Get(d, key, default) == IF key \in DOMAIN d THEN d[key] ELSE default

(* A JSON value that is not an object *)
NotADict == [not_a_dict |-> TRUE]
IsDict(v) == "not_a_dict" \notin DOMAIN v

ReflectionWindowDays == 7

(* performance_data of reflect_and_improve: per type of the last 7 days *)
PerformanceData(now) ==
    LET rows == Recent(performance_metrics, now, ReflectionWindowDays) IN
    {[operation_type |-> t,
      avg_duration |-> AvgDuration(OfType(rows, t)),
      avg_quality |-> AvgQuality(OfType(rows, t)),
      success_rate |-> SuccessRate(OfType(rows, t))] : t \in TypesIn(rows)}

CacheResults ==
    [area |-> "latency", recommended_action |-> "cache results", current_metric |-> <<1, 2>>]

(* What the text-generation collaborator can answer to the reflection prompt *)
ReflectionReplies ==
    {[kind |-> "raise"], [kind |-> "non200"], [kind |-> "invalid_json"],
     [kind |-> "json", content |-> NotADict],
     [kind |-> "json", content |-> [overall_health |-> "good"]],
     [kind |-> "json", content |-> [overall_health |-> "fair",
                                    improvement_priorities |-> <<CacheResults, CacheResults>>]],
     [kind |-> "json", content |-> [overall_health |-> "poor",
                                    improvement_priorities |-> <<CacheResults, NotADict>>]]}

(* Mutant: the fallback reports a healthy system *)
HealthyFallback ==
    [overall_health |-> "good", message |-> "Unable to perform reflection"]

ReflectionFallback ==
    [overall_health |-> "unknown", message |-> "Unable to perform reflection"]

(* The loop over improvement_priorities: the table after the loop, and whether *)
(* the loop ran to its end (an item that is not an object raises)              *)
RECURSIVE StorePriorities(_, _, _)
StorePriorities(insights, priorities, now) ==
    IF priorities = <<>> THEN [insights |-> insights, completed |-> TRUE]
    ELSE IF ~IsDict(priorities[1]) THEN [insights |-> insights, completed |-> FALSE]
    ELSE StorePriorities(
            _create_improvement_insight(insights,
                Get(priorities[1], "recommended_action", ""),
                Get(priorities[1], "current_metric", Zero), now),
            Tail(priorities), now)

reflect_and_improve(reply) ==
    LET parsed == session /\ reply.kind = "json" /\ IsDict(reply.content)
        stored == IF parsed
                  THEN StorePriorities(optimization_insights,
                           Get(reply.content, "improvement_priorities", <<>>), clock)
                  ELSE [insights |-> optimization_insights, completed |-> FALSE]
    IN
    /\ Len(stored.insights) <= MaxInsights
    /\ optimization_insights' = stored.insights
    /\ ret' = [op |-> "reflect_and_improve",
               performance_data |-> PerformanceData(clock),
               \* no answer with status 200 and a JSON body came back
               call_failed |-> ~session \/ reply.kind # "json",
               \* what the collaborator has to say: a status 200 and a JSON object
               answered |-> [ok |-> reply.kind = "json" /\ IsDict(reply.content),
                             report |-> IF reply.kind = "json" THEN reply.content
                                        ELSE NotADict],
               value |-> IF stored.completed THEN reply.content ELSE ReflectionFallback]
    /\ UNCHANGED <<clock, session, performance_history, success_rate_cache,
                   performance_metrics, learning_entries, error_patterns,
                   closed, outcomes, missed, ending, recording,
                   searching, app, auth, suggestions>>

ReflectAndImprove ==
    /\ \E reply \in ReflectionReplies : reflect_and_improve(reply)
    /\ UNCHANGED reflection_loop

----------------------------------------------------------------------------
(* The reflection thread (CompleteUltimateApp.start_reflection_loop):       *)
(*   while True: time.sleep(3600); try: a pass; except Exception: print     *)

(* Mutant: an exception of the pass leaves the loop *)
StopOnException(outcome) ==
    [state |-> IF outcome = "raised" THEN "STOPPED" ELSE "IDLE", last |-> outcome]

(* The loop after a pass: the handler catches the exception and the loop    *)
(* goes back to time.sleep                                                  *)
AfterPass(outcome) == [state |-> "IDLE", last |-> outcome]

(* time.sleep(3600) returns *)
TimerFires ==
    /\ reflection_loop.state = "IDLE"
    /\ reflection_loop' = [reflection_loop EXCEPT !.state = "RUNNING"]
    /\ ret' = [op |-> "time.sleep"]
    /\ UNCHANGED <<clock, session, performance_history, success_rate_cache, stores,
                   closed, outcomes, missed, ending, recording,
                   searching, app, auth, suggestions>>

(* One pass: reflect_and_improve and the log call after it. The queries at  *)
(* the head of reflect_and_improve are outside its handler, so a storage    *)
(* error leaves the call; self.after can raise in the thread as well.       *)
ReflectionPass ==
    /\ reflection_loop.state = "RUNNING"
    /\ \/ \E reply \in ReflectionReplies, after_raises \in BOOLEAN :
             /\ reflect_and_improve(reply)
             /\ reflection_loop' = AfterPass(IF after_raises THEN "raised" ELSE "returned")
       \/ /\ ret' = [op |-> "reflect_and_improve", raised |-> "sqlite3.Error"]
          /\ reflection_loop' = AfterPass("raised")
          /\ UNCHANGED <<clock, session, performance_history, success_rate_cache, stores,
                         closed, outcomes, missed, ending, recording,
                   searching, app, auth, suggestions>>

----------------------------------------------------------------------------
(* Web search for error solutions *)

Problems == {<<>>, <<"b">>, <<"b", "a">>}
NoContext == [engine |-> None]
Contexts == {NoContext, [engine |-> "unreal"]}

LocalPrefixLen == 50
LocalLimit == 5
StackOverflowLimit == 5

(* ORDER BY avg_fix_time ASC, rows of equal time in rowid order *)
RECURSIVE OrderByFixTime(_)
OrderByFixTime(rows) ==
    IF rows = <<>> THEN <<>>
    ELSE LET m == CHOOSE i \in 1..Len(rows) :
                    /\ \A j \in 1..Len(rows) : rows[i].avg_fix_time <= rows[j].avg_fix_time
                    /\ \A j \in 1..(i - 1) : rows[j].avg_fix_time > rows[i].avg_fix_time
         IN <<rows[m]>> \o OrderByFixTime(SubSeq(rows, 1, m - 1) \o SubSeq(rows, m + 1, Len(rows)))

_search_local_knowledge(error_message) ==
    LET matching == SelectSeq(error_patterns,
                        LAMBDA r : Contains(r.error_signature, Take(error_message, LocalPrefixLen)))
        rows == Take(OrderByFixTime(matching), LocalLimit)
    IN [i \in 1..Len(rows) |->
            [source |-> "local_knowledge",
             error_type |-> rows[i].error_type,
             best_solution |-> rows[i].best_solution,
             avg_fix_time |-> rows[i].avg_fix_time,
             confidence |-> <<9, 10>>]]

(* What a search collaborator can do with a request *)
(* (a timeout reaches the caller as an exception, asyncio.TimeoutError)  *)
OkItems == <<[title |-> "t1", link |-> "u1", html_url |-> "u1"]>>

SearchReplies ==
    {[kind |-> "raise"], [kind |-> "non200"], [kind |-> "ok", items |-> OkItems]}

Failed(reply) == reply.kind # "ok"

_search_stackoverflow(query, reply) ==
    IF reply.kind = "ok"
    THEN LET items == Take(reply.items, StackOverflowLimit) IN
         [i \in 1..Len(items) |->
            [source |-> "stackoverflow",
             title |-> Get(items[i], "title", None),
             url |-> Get(items[i], "link", None),
             score |-> Get(items[i], "score", 0),
             answer_count |-> Get(items[i], "answer_count", 0),
             is_answered |-> Get(items[i], "is_answered", FALSE),
             tags |-> Get(items[i], "tags", <<>>)]]
    ELSE <<>>

(* Mutant: a failed request is reported as a result *)
GithubErrorAsResult(query, context, reply) ==
    IF reply.kind = "ok"
    THEN [i \in 1..Len(reply.items) |->
            [source |-> "github", title |-> Get(reply.items[i], "title", None),
             url |-> Get(reply.items[i], "html_url", None), state |-> None,
             comments |-> 0, reactions |-> 0]]
    ELSE <<[source |-> "github", title |-> reply.kind, url |-> None, state |-> None,
            comments |-> 0, reactions |-> 0]>>

_search_github_issues(query, context, reply) ==
    IF reply.kind = "ok"
    THEN [i \in 1..Len(reply.items) |->
            [source |-> "github",
             title |-> Get(reply.items[i], "title", None),
             url |-> Get(reply.items[i], "html_url", None),
             state |-> Get(reply.items[i], "state", None),
             comments |-> Get(reply.items[i], "comments", 0),
             reactions |-> Get(Get(reply.items[i], "reactions", <<>>), "total_count", 0)]]
    ELSE <<>>

_search_unreal_forums(query) ==
    <<[source |-> "unreal_forums",
       title |-> "Check Unreal Engine forums manually",
       url |-> <<"https://forums.unrealengine.com/search?q=", query>>,
       note |-> "Manual search recommended"]>>

(* What the text-generation collaborator can answer to the synthesis prompt *)
SynthesisReplies ==
    {[kind |-> "raise"], [kind |-> "non200"], [kind |-> "invalid_json"],
     [kind |-> "json", content |-> NotADict],
     [kind |-> "json", content |->
        [recommended_solution |-> "clean and rebuild", confidence |-> <<9, 10>>,
         reasoning |-> "most votes", alternative_solutions |-> <<>>,
         estimated_fix_time |-> "5"]]}

(* Mutant: the fallback carries the default confidence of the learning store *)
SynthesizeHalfConfidence(error_message, solutions, reply) ==
    IF reply.kind = "json"
    THEN reply.content
    ELSE [recommended_solution |-> "Manual review required",
          confidence |-> <<1, 2>>,
          reasoning |-> "Unable to synthesize solutions",
          alternative_solutions |-> <<>>,
          estimated_fix_time |-> "unknown"]

_synthesize_solutions(error_message, solutions, reply) ==
    IF reply.kind = "json"
    THEN reply.content
    ELSE [recommended_solution |-> "Manual review required",
          confidence |-> <<3, 10>>,
          reasoning |-> "Unable to synthesize solutions",
          alternative_solutions |-> <<>>,
          estimated_fix_time |-> "unknown"]

JsonDumps(v) == <<"json", v>>

(* Mutant: INSERT OR IGNORE, a row with the same entry_id is kept *)
StoreOrIgnore(entries, problem, solution, source, now) ==
    IF \E i \in 1..Len(entries) : entries[i].entry_id = _generate_id(problem, now)
    THEN entries
    ELSE Append(entries,
            [entry_id |-> _generate_id(problem, now), timestamp |-> now,
             category |-> "error_solution", problem |-> problem,
             solution |-> <<"json", solution>>,
             success_rate |-> IF "confidence" \in DOMAIN solution
                              THEN solution["confidence"] ELSE <<1, 2>>,
             times_used |-> 0, effectiveness_score |-> Zero, source |-> source])

(* INSERT OR REPLACE INTO learning_entries: the primary key is entry_id *)
_store_learned_solution(entries, problem, solution, source, now) ==
    LET entry_id == _generate_id(problem, now)
        learning_entry ==
            [entry_id |-> entry_id,
             timestamp |-> now,
             category |-> "error_solution",
             problem |-> problem,
             solution |-> JsonDumps(solution),
             success_rate |-> Get(solution, "confidence", <<1, 2>>),
             times_used |-> 0,
             effectiveness_score |-> Zero,
             source |-> source]
    IN Append(SelectSeq(entries, LAMBDA e : e.entry_id # entry_id), learning_entry)

(* Mutant: the local result is never returned early *)
NeverShortCircuit(local_solutions) == FALSE

(* if local_solutions: return local_solutions *)
ShortCircuit(local_solutions) == local_solutions # <<>>

Collaborators == {"stackoverflow", "github", "openai"}

search_error_solution(error_message, context, replies) ==
    LET local_solutions == _search_local_knowledge(error_message)
        stackoverflow_results == _search_stackoverflow(error_message, replies.so)
        github_results == _search_github_issues(error_message, context, replies.gh)
        unreal_results == IF context.engine = "unreal"
                          THEN _search_unreal_forums(error_message) ELSE <<>>
        solutions == stackoverflow_results \o github_results \o unreal_results
        best_solution == _synthesize_solutions(error_message, solutions, replies.llm)
        entries == _store_learned_solution(learning_entries, error_message,
                                           best_solution, "web_search", clock)
        call == [op |-> "search_error_solution", error_message |-> error_message,
                 context |-> context]
        \* what the collaborators did during the call
        seen == [failed |-> {c \in {"so", "gh"} : Failed(replies[c])},
                 llm_failed |-> replies.llm.kind # "json"]
    IN
    /\ session' = TRUE
    /\ IF ShortCircuit(local_solutions)
       THEN /\ ret' = call @@ [path |-> "hit", external |-> {}, raised |-> None,
                               value |-> local_solutions]
            /\ UNCHANGED <<learning_entries, outcomes, missed>>
       ELSE IF ~IsDict(best_solution)
       THEN \* solution.get in _store_learned_solution: AttributeError leaves the call
            /\ ret' = call @@ [path |-> "miss", external |-> Collaborators,
                               raised |-> "AttributeError", replies |-> seen,
                               solutions |-> solutions, synthesized |-> best_solution]
            /\ UNCHANGED <<learning_entries, outcomes, missed>>
       ELSE /\ Len(entries) <= MaxEntries
            /\ learning_entries' = entries
            /\ outcomes' = [id \in DOMAIN outcomes \cup {_generate_id(error_message, clock)} |->
                              IF id = _generate_id(error_message, clock) THEN <<>>
                              ELSE outcomes[id]]
            /\ missed' = missed \cup {error_message}
            /\ ret' = call @@ [path |-> "miss", external |-> Collaborators,
                               raised |-> None, replies |-> seen,
                               solutions |-> solutions, synthesized |-> best_solution,
                               value |-> solutions]
    /\ UNCHANGED <<clock, performance_history, success_rate_cache, performance_metrics,
                   error_patterns, optimization_insights, closed, threads, auth,
                   suggestions>>

(* The replies the collaborators give during one call; on the hit path no   *)
(* collaborator is asked and no reply is drawn.                            *)
NoReplies == [so |-> [kind |-> "unused"], gh |-> [kind |-> "unused"],
              llm |-> [kind |-> "unused"]]

RepliesFor(error_message) ==
    IF _search_local_knowledge(error_message) # <<>> THEN {NoReplies}
    ELSE [so : SearchReplies, gh : SearchReplies, llm : SynthesisReplies]

SearchErrorSolution ==
    \E error_message \in Problems, context \in Contexts :
        \E replies \in RepliesFor(error_message) :
            /\ search_error_solution(error_message, context, replies)
            /\ UNCHANGED <<searching, app>>

----------------------------------------------------------------------------
(* Learning from outcomes *)

(* Mutant: every row matches *)
MatchingAny(entries, problem) == entries

(* WHERE problem LIKE '%' || problem[:50] || '%', the rows in rowid order *)
Matching(entries, problem) ==
    SelectSeq(entries, LAMBDA e : Contains(e.problem, Take(problem, LocalPrefixLen)))

(* Mutant: an exponential decay instead of the running mean *)
DecayedEffectiveness(effectiveness_score, times_used, worked) ==
    FDivInt(FAdd(effectiveness_score, IF worked THEN One ELSE Zero), 2)

(* Mutant: the sum of the outcomes, not divided by their number *)
UndividedEffectiveness(effectiveness_score, times_used, worked) ==
    FAdd(FMulInt(effectiveness_score, times_used), IF worked THEN One ELSE Zero)

(* new_effectiveness = (effectiveness_score * times_used + outcome) / new_times_used *)
NewEffectiveness(effectiveness_score, times_used, worked) ==
    FDivInt(FAdd(FMulInt(effectiveness_score, times_used),
                 IF worked THEN One ELSE Zero),
            times_used + 1)

record_solution_success(problem, worked) ==
    LET rows == Matching(learning_entries, problem) IN
    IF rows = <<>>
    THEN /\ ret' = [op |-> "record_solution_success", problem |-> problem,
                    updated |-> FALSE]
         /\ UNCHANGED <<clock, session, performance_history, success_rate_cache,
                        stores, closed, outcomes, missed, threads,
                   searching, app, auth, suggestions>>
    ELSE LET row == rows[1] IN     \* fetchone(): the first row of the table scan
         /\ row.times_used < MaxUses
         /\ learning_entries' =
               [i \in 1..Len(learning_entries) |->
                  IF learning_entries[i].entry_id = row.entry_id
                  THEN [learning_entries[i] EXCEPT
                          !.times_used = row.times_used + 1,
                          !.effectiveness_score =
                              NewEffectiveness(row.effectiveness_score, row.times_used, worked)]
                  ELSE learning_entries[i]]
         /\ outcomes' = [outcomes EXCEPT ![row.entry_id] =
                            Append(@, IF worked THEN 1 ELSE 0)]
         /\ ret' = [op |-> "record_solution_success", problem |-> problem,
                    updated |-> TRUE]
         /\ UNCHANGED <<clock, session, performance_history, success_rate_cache,
                        performance_metrics, error_patterns, optimization_insights,
                        closed, missed, threads,
                   searching, app, auth, suggestions>>

RecordSolutionSuccess ==
    \E problem \in Problems, worked \in BOOLEAN : record_solution_success(problem, worked)

(* record_solution_success step by step, as another caller sees it: the     *)
(* SELECT and fetchone, then the UPDATE and commit.                         *)
RecordSelect(problem, worked) ==
    LET rows == Matching(learning_entries, problem) IN
    /\ recording = NotRunning
    /\ rows # <<>>
    /\ rows[1].times_used < MaxUses
    /\ recording' = [stage |-> "update", entry_id |-> rows[1].entry_id,
                     times_used |-> rows[1].times_used,
                     effectiveness_score |-> rows[1].effectiveness_score,
                     problem |-> problem, worked |-> worked]
    /\ ret' = [op |-> "record_solution_success_step", step |-> "select"]
    /\ UNCHANGED <<clock, session, performance_history, success_rate_cache, stores,
                   closed, outcomes, missed, ending, reflection_loop,
                   searching, app, auth, suggestions>>

RecordUpdate ==
    /\ recording.stage = "update"
    /\ learning_entries' =
          [i \in 1..Len(learning_entries) |->
             IF learning_entries[i].entry_id = recording.entry_id
             THEN [learning_entries[i] EXCEPT
                     !.times_used = recording.times_used + 1,
                     !.effectiveness_score =
                         NewEffectiveness(recording.effectiveness_score,
                                          recording.times_used, recording.worked)]
             ELSE learning_entries[i]]
    /\ outcomes' = [outcomes EXCEPT ![recording.entry_id] =
                       Append(@, IF recording.worked THEN 1 ELSE 0)]
    /\ recording' = NotRunning
    /\ ret' = [op |-> "record_solution_success", problem |-> recording.problem,
               updated |-> TRUE]
    /\ UNCHANGED <<clock, session, performance_history, success_rate_cache,
                   performance_metrics, error_patterns, optimization_insights,
                   closed, missed, ending, reflection_loop,
                   searching, app, auth, suggestions>>

BeginRecordSolutionSuccess ==
    \E problem \in Problems, worked \in BOOLEAN : RecordSelect(problem, worked)

(* _store_learned_solution called on its own *)
StoredSolutions == {[recommended_solution |-> "clean and rebuild", confidence |-> <<9, 10>>]}

StoreLearnedSolution ==
    \E problem \in Problems, solution \in StoredSolutions :
        LET entries == _store_learned_solution(learning_entries, problem, solution,
                                               "web_search", clock)
        IN /\ Len(entries) <= MaxStored
           /\ learning_entries' = entries
           /\ outcomes' = [id \in DOMAIN outcomes \cup {_generate_id(problem, clock)} |->
                             IF id = _generate_id(problem, clock) THEN <<>> ELSE outcomes[id]]
           /\ ret' = [op |-> "_store_learned_solution", problem |-> problem]
           /\ UNCHANGED <<clock, session, performance_history, success_rate_cache,
                          performance_metrics, error_patterns, optimization_insights,
                          closed, missed, threads,
                   searching, app, auth, suggestions>>

----------------------------------------------------------------------------
(* The most effective solutions *)

TopLimits == {0, 1, 2, 10}

(* json.loads(row[1]) if row[1].startswith('{') else row[1] *)
LoadSolution(text) == IF IsDict(text[2]) THEN text[2] ELSE text

(* Mutant: the least effective first *)
OrderedAscending(a, b) ==
    \/ FLess(a.effectiveness_score, b.effectiveness_score)
    \/ /\ a.effectiveness_score = b.effectiveness_score
       /\ a.times_used <= b.times_used

(* ORDER BY effectiveness_score DESC, times_used DESC: a may stand before b *)
OrderedBefore(a, b) ==
    \/ FLess(b.effectiveness_score, a.effectiveness_score)
    \/ /\ a.effectiveness_score = b.effectiveness_score
       /\ a.times_used >= b.times_used

(* The orders the query may return the rows in: SQL leaves the order of     *)
(* rows that are equal on both keys open.                                   *)
TopOrders(rows) ==
    {[i \in 1..Len(rows) |-> rows[f[i]]] :
        f \in {g \in [1..Len(rows) -> 1..Len(rows)] :
                 /\ \A i, j \in 1..Len(rows) : g[i] = g[j] => i = j
                 /\ \A i, j \in 1..Len(rows) : i < j => OrderedBefore(rows[g[i]], rows[g[j]])}}

TopSolutions(order, limit) ==
    [i \in 1..Len(Take(order, limit)) |->
        [problem |-> order[i].problem,
         solution |-> LoadSolution(order[i].solution),
         effectiveness |-> order[i].effectiveness_score,
         times_used |-> order[i].times_used,
         source |-> order[i].source]]

get_top_solutions(limit) ==
    /\ \E order \in TopOrders(Used(learning_entries)) :
          ret' = [op |-> "get_top_solutions", limit |-> limit,
                  value |-> TopSolutions(order, limit)]
    /\ UNCHANGED <<clock, session, performance_history, success_rate_cache, stores,
                   closed, outcomes, missed, threads,
                   searching, app, auth, suggestions>>

GetTopSolutions == \E limit \in TopLimits : get_top_solutions(limit)

----------------------------------------------------------------------------
(* AutonomousImprovementSystem: the priority of a suggestion *)

MaxSuggestions == 2

(* An improvement of an analysis result: the keys impact and effort may be *)
(* missing (None here stands for a missing key)                             *)
Improvement(impact, effort) == [k \in {x \in {"impact", "effort"} : (x = "impact" /\ impact # None) \/ (x = "effort" /\ effort # None)} |-> IF k = "impact" THEN impact ELSE effort]

Improvements == {Improvement(i, e) : i \in {"low", "medium", "high", None}, e \in {"low", "medium", "high", None}}

impact_score == [low |-> 1, medium |-> 2, high |-> 3]

(* Mutant: effort scored the same way round as impact *)
EffortScoredAsImpact == [low |-> 1, medium |-> 2, high |-> 3]

effort_score == [low |-> 3, medium |-> 2, high |-> 1]

_calculate_suggestion_priority(improvement) ==
    LET impact == Get(improvement, "impact", "medium")
        effort == Get(improvement, "effort", "medium")
        total == impact_score[impact] + effort_score[effort]
    IN  IF 5 < total THEN 5 ELSE total

(* One call of _calculate_suggestion_priority; the calls are kept *)
CalculateSuggestionPriority ==
    \E improvement \in Improvements :
        /\ Len(suggestions) < MaxSuggestions
        /\ suggestions' = Append(suggestions,
                                 [improvement |-> improvement,
                                  priority |-> _calculate_suggestion_priority(improvement)])
        /\ ret' = [op |-> "_calculate_suggestion_priority", improvement |-> improvement,
                   value |-> _calculate_suggestion_priority(improvement)]
        /\ UNCHANGED <<learner, app, auth>>

----------------------------------------------------------------------------
(* UserAuthSystem: users, sessions and the tracking of an active session *)
(* (a nullable column of a row holds no value, <<>>, or one, <<v>>)      *)

MaxUsers == 1
MaxSessions == 2
MaxTracked == 1

MinUsernameLen == 3
MinPasswordLen == 8

Usernames == {<<"a", "l">>, <<"a", "l", "i">>, <<"b", "o", "b">>}
Emails == {"ali@x", "bob@x"}
Passwords == {<<"s", "e", "c", "r", "e", "t">>, <<"p", "a", "s", "s", "w", "o", "r", "d">>}

(* secrets.token_hex, secrets.token_urlsafe: any value, also one met before *)
Salts == {<<"0">>, <<"f">>}
SessionTokens == {"t1", "t2"}
SessionIds == {"sess_1", "sess_2"}

(* What callers hand to the tracking methods: a Dict[str, Any] may hold a *)
(* value that json.dumps rejects                                           *)
TrackedData == {[value |-> "d", serialisable |-> TRUE], [value |-> "o", serialisable |-> FALSE]}

_hash_password(password, salt) == <<"sha256", password \o salt>>

AuthCall(op, session_token, raised, value) == [op |-> op, session_token |-> session_token, raised |-> raised, value |-> value]

register_user(username, email, password, salt) ==
    /\ IF Len(username) < MinUsernameLen
       THEN /\ ret' = AuthCall("register_user", None, None,
                               [success |-> FALSE,
                                error |-> "Username must be at least 3 characters"])
            /\ UNCHANGED users
       ELSE IF Len(password) < MinPasswordLen
       THEN /\ ret' = AuthCall("register_user", None, None,
                               [success |-> FALSE,
                                error |-> "Password must be at least 8 characters"])
            /\ UNCHANGED users
       ELSE IF \E i \in 1..Len(users) : users[i].username = username \/ users[i].email = email
       THEN /\ ret' = AuthCall("register_user", None, None,
                               [success |-> FALSE,
                                error |-> "Username or email already exists"])
            /\ UNCHANGED users
       ELSE /\ users' = Append(users, [user_id |-> Len(users) + 1,
                                       username |-> username,
                                       email |-> email,
                                       password_hash |-> _hash_password(password, salt),
                                       salt |-> salt,
                                       last_login |-> <<>>,
                                       total_sessions |-> 0])
            /\ ret' = AuthCall("register_user", None, None,
                               [success |-> TRUE, user_id |-> Len(users) + 1,
                                username |-> username,
                                message |-> "User registered successfully"])
    /\ UNCHANGED <<user_sessions, active_sessions, learner, app, suggestions>>

RegisterUser ==
    \E username \in Usernames, email \in Emails, password \in Passwords, salt \in Salts :
        /\ Len(users) < MaxUsers \/ (\E i \in 1..Len(users) : users[i].username = username \/ users[i].email = email)
        /\ register_user(username, email, password, salt)

(* self.active_sessions[session_token] = {...} *)
WithSession(active, session_token, data) == [t \in DOMAIN active \cup {session_token} |-> IF t = session_token THEN data ELSE active[t]]

(* Mutant: logout leaves the token in active_sessions *)
KeepSession(active, session_token) == active

(* del self.active_sessions[session_token] *)
WithoutSession(active, session_token) == [t \in DOMAIN active \ {session_token} |-> active[t]]

login(username, password, session_token, session_id) ==
    /\ LET found == {i \in 1..Len(users) : users[i].username = username}
           failed == AuthCall("login", None, None,
                              [success |-> FALSE, error |-> "Invalid username or password"])
       IN  IF found = {}
           THEN ret' = failed /\ UNCHANGED auth
           ELSE LET user == users[CHOOSE i \in found : TRUE]
                IN  IF _hash_password(password, user.salt) # user.password_hash
                    THEN ret' = failed /\ UNCHANGED auth
                    ELSE IF \E k \in 1..Len(user_sessions) :
                                \/ user_sessions[k].session_id = session_id
                                \/ user_sessions[k].session_token = session_token
                    THEN /\ ret' = AuthCall("login", session_token,
                                            "sqlite3.IntegrityError", None)
                         /\ UNCHANGED auth
                    ELSE /\ user_sessions' =
                                Append(user_sessions,
                                       [session_id |-> session_id,
                                        user_id |-> user.user_id,
                                        session_token |-> session_token,
                                        start_time |-> clock,
                                        end_time |-> <<>>,
                                        duration_seconds |-> <<>>,
                                        actions_log |-> <<>>,
                                        assets_created |-> <<>>,
                                        errors_encountered |-> <<>>,
                                        features_used |-> <<>>,
                                        status |-> "active"])
                         /\ users' = [users EXCEPT
                                        ![user.user_id].last_login = <<clock>>,
                                        ![user.user_id].total_sessions = @ + 1]
                         /\ active_sessions' =
                                WithSession(active_sessions, session_token,
                                            [session_id |-> session_id,
                                             user_id |-> user.user_id,
                                             username |-> user.username,
                                             start_time |-> clock,
                                             actions |-> <<>>,
                                             assets_created |-> <<>>,
                                             errors |-> <<>>,
                                             features_used |-> {}])
                         /\ ret' = AuthCall("login", session_token, None,
                                            [success |-> TRUE,
                                             session_token |-> session_token,
                                             user_id |-> user.user_id,
                                             username |-> user.username,
                                             email |-> user.email])
    /\ UNCHANGED <<learner, app, suggestions>>

Login ==
    \E username \in Usernames, password \in Passwords, session_token \in SessionTokens, session_id \in SessionIds :
        /\ Len(user_sessions) < MaxSessions
        /\ login(username, password, session_token, session_id)

(* json.dumps accepts the tracked data of a session *)
Dumpable(session_data) ==
    /\ \A i \in 1..Len(session_data.actions) : session_data.actions[i].details.serialisable
    /\ \A i \in 1..Len(session_data.assets_created) : session_data.assets_created[i].serialisable
    /\ \A i \in 1..Len(session_data.errors) : session_data.errors[i].serialisable

logout(session_token) ==
    /\ IF session_token \notin DOMAIN active_sessions
       THEN /\ ret' = AuthCall("logout", session_token, None,
                               [success |-> FALSE, error |-> "Invalid session"])
            /\ UNCHANGED auth
       ELSE LET session_data == active_sessions[session_token]
                duration == clock - session_data.start_time
            IN  IF ~Dumpable(session_data)
                THEN /\ ret' = AuthCall("logout", session_token, "TypeError", None)
                     /\ UNCHANGED auth
                ELSE /\ user_sessions' =
                            [k \in 1..Len(user_sessions) |->
                                IF user_sessions[k].session_id = session_data.session_id
                                THEN [user_sessions[k] EXCEPT
                                        !.end_time = <<clock>>,
                                        !.duration_seconds = <<duration>>,
                                        !.actions_log = <<JsonDumps(session_data.actions)>>,
                                        !.assets_created =
                                            <<JsonDumps(session_data.assets_created)>>,
                                        !.errors_encountered =
                                            <<JsonDumps(session_data.errors)>>,
                                        !.features_used =
                                            <<JsonDumps(session_data.features_used)>>,
                                        !.status = "completed"]
                                ELSE user_sessions[k]]
                     /\ active_sessions' = WithoutSession(active_sessions, session_token)
                     /\ ret' = AuthCall("logout", session_token, None,
                                        [success |-> TRUE,
                                         session_data |->
                                            [session_id |-> session_data.session_id,
                                             user_id |-> session_data.user_id,
                                             start_time |-> session_data.start_time,
                                             end_time |-> clock,
                                             duration |-> duration,
                                             actions |-> session_data.actions,
                                             assets_created |-> session_data.assets_created,
                                             errors |-> session_data.errors,
                                             features_used |-> session_data.features_used]])
                     /\ UNCHANGED users
    /\ UNCHANGED <<learner, app, suggestions>>

Logout == \E session_token \in SessionTokens : logout(session_token)

(* The four tracking methods: a token that is not active is ignored *)
Track(op, session_token, field, item) ==
    /\ session_token \in DOMAIN active_sessions
        => LET session_data == active_sessions[session_token]
           IN  Len(session_data.actions) + Len(session_data.assets_created)
                + Len(session_data.errors) + Cardinality(session_data.features_used)
                    < MaxTracked
    /\ active_sessions' =
            IF session_token \in DOMAIN active_sessions
            THEN [active_sessions EXCEPT ![session_token][field] =
                        IF field = "features_used" THEN @ \cup {item} ELSE Append(@, item)]
            ELSE active_sessions
    /\ ret' = AuthCall(op, session_token, None, None)
    /\ UNCHANGED <<users, user_sessions, learner, app, suggestions>>

track_action(session_token, action_type, details) == Track("track_action", session_token, "actions", [type |-> action_type, details |-> details, timestamp |-> clock])

track_asset_created(session_token, asset_data) == Track("track_asset_created", session_token, "assets_created", asset_data)

track_feature_used(session_token, feature_name) == Track("track_feature_used", session_token, "features_used", feature_name)

track_error(session_token, error_data) == Track("track_error", session_token, "errors", error_data)

----------------------------------------------------------------------------
(* search_error_solution, await by await: a collaborator is in flight from *)
(* the sending of its request to its answer (or its timeout)                *)

(* The search in progress after a request was sent: the calls in flight and *)
(* the largest number of them seen at once during this search               *)
Awaiting(search, stage, collaborator) == [search EXCEPT !.stage = stage, !.in_flight = {collaborator}, !.peak = IF search.peak < 1 THEN 1 ELSE search.peak]

(* setup_session, the local lookup and, on a miss, the request of *)
(* _search_stackoverflow                                           *)
BeginSearch ==
    \E error_message \in Problems, context \in Contexts :
        /\ searching = NotRunning
        /\ IF ShortCircuit(_search_local_knowledge(error_message))
           THEN search_error_solution(error_message, context, NoReplies)
                /\ UNCHANGED searching
           ELSE /\ session' = TRUE
                /\ searching' = Awaiting([stage |-> "begin",
                                          error_message |-> error_message,
                                          context |-> context,
                                          in_flight |-> {},
                                          peak |-> 0,
                                          so |-> [kind |-> "unused"],
                                          gh |-> [kind |-> "unused"]],
                                         "stackoverflow", "stackoverflow")
                /\ ret' = [op |-> "search_error_solution_step"]
                /\ UNCHANGED <<clock, performance_history, success_rate_cache, stores,
                               closed, outcomes, missed, threads, auth, suggestions>>
        /\ UNCHANGED app

(* _search_stackoverflow returns; the request of _search_github_issues *)
StackOverflowAnswers ==
    \E reply \in SearchReplies :
        /\ searching.stage = "stackoverflow"
        /\ searching' = Awaiting([searching EXCEPT !.so = reply], "github", "github")
        /\ ret' = [op |-> "search_error_solution_step"]
        /\ UNCHANGED <<clock, session, performance_history, success_rate_cache, stores,
                       closed, outcomes, missed, threads, app, auth, suggestions>>

(* _search_github_issues returns; the forum pointer is built locally; the *)
(* request of _synthesize_solutions                                       *)
GithubAnswers ==
    \E reply \in SearchReplies :
        /\ searching.stage = "github"
        /\ searching' = Awaiting([searching EXCEPT !.gh = reply], "openai", "openai")
        /\ ret' = [op |-> "search_error_solution_step"]
        /\ UNCHANGED <<clock, session, performance_history, success_rate_cache, stores,
                       closed, outcomes, missed, threads, app, auth, suggestions>>

(* _synthesize_solutions returns; _store_learned_solution; return *)
SynthesisAnswers ==
    \E reply \in SynthesisReplies :
        /\ searching.stage = "openai"
        /\ search_error_solution(searching.error_message, searching.context,
                                 [so |-> searching.so, gh |-> searching.gh, llm |-> reply])
        /\ searching' = NotRunning
        /\ UNCHANGED app

----------------------------------------------------------------------------
(* The operations of SelfImprovingAI side by side, on small inputs *)

(* Every collaborator answers the search *)
AllAnswer == [so |-> [kind |-> "ok", items |-> OkItems], gh |-> [kind |-> "ok", items |-> OkItems], llm |-> CHOOSE r \in SynthesisReplies : r.kind = "json" /\ IsDict(r.content)]

(* search_error_solution without context, answered by every collaborator *)
SearchAnswered ==
    \E error_message \in Problems :
        \E replies \in (RepliesFor(error_message) \cap {NoReplies, AllAnswer}) :
            /\ search_error_solution(error_message, NoContext, replies)
            /\ UNCHANGED <<searching, app>>

----------------------------------------------------------------------------
(* CompleteUltimateApp: submit and the thread of process_complete_workflow *)

(* str.strip *)
Strip(text) ==
    LET inked == {i \in 1..Len(text) : text[i] # " "} IN
    IF inked = {} THEN <<>>
    ELSE SubSeq(text, CHOOSE i \in inked : \A j \in inked : i <= j,
                      CHOOSE i \in inked : \A j \in inked : j <= i)

UserInputs == {<<>>, <<" ">>, <<"b">>}

(* What ai_brain.understand_input can do: an intent, or an exception *)
Intents == {"ERROR_FIXING", "ASSET_CREATION", "raise"}

(* test_results of execute_automated_tests *)
TestResults == {[passed |-> 1, total_tests |-> 1], [passed |-> 0, total_tests |-> 1], [passed |-> 0, total_tests |-> 0]}

(* Mutant: submit does not look at the processing flag *)
AcceptsWhileProcessing(flag, user_input) == Strip(user_input) # <<>>

(* if self.processing: return / if not user_input.strip(): return *)
SubmitAccepts(flag, user_input) == ~flag /\ Strip(user_input) # <<>>

(* submit (also reached from quick_command): an accepted input sets the   *)
(* flag and starts the thread.  An input is accepted only while the       *)
(* stores have room for what one workflow writes.                         *)
Submit ==
    \E user_input \in UserInputs :
        /\ SubmitAccepts(processing, user_input)
            => /\ Len(performance_history) < MaxStarted
               /\ Len(optimization_insights) + 2 <= MaxInsights
        /\ IF SubmitAccepts(processing, user_input)
           THEN /\ processing' = TRUE
                /\ workers' = Append(workers, [pc |-> "start",
                                               user_input |-> user_input,
                                               operation_id |-> <<>>,
                                               outcome |-> [passed |-> 0,
                                                            total_tests |-> 0],
                                               ends |-> 0,
                                               reapplied |-> FALSE])
                /\ ret' = [op |-> "submit", started |-> TRUE]
           ELSE /\ ret' = [op |-> "submit", started |-> FALSE]
                /\ UNCHANGED app
        /\ UNCHANGED <<learner, auth, suggestions>>

(* The worker i moves to pc with the fields given *)
Moved(i, pc, with) == [workers EXCEPT ![i] = [f \in DOMAIN workers[i] |-> IF f = "pc" THEN pc ELSE IF f \in DOMAIN with THEN with[f] ELSE workers[i][f]]]

(* operation_id = self.learning_ai.start_operation("complete_workflow") *)
WorkerStart ==
    \E i \in 1..Len(workers) :
        /\ workers[i].pc = "start"
        /\ start_operation("complete_workflow")
        /\ workers' = Moved(i, "understand", [operation_id |-> ret'.value])
        /\ UNCHANGED processing

(* Step 1: understand_input; an error-fixing intent leads to the search *)
(* (taken only while the learning store has room for its entry)         *)
WorkerUnderstand ==
    \E i \in 1..Len(workers), intent \in Intents :
        /\ workers[i].pc = "understand"
        /\ intent = "ERROR_FIXING" => Len(learning_entries) < MaxEntries
        /\ workers' = Moved(i, CASE intent = "raise" -> "except"
                                 [] intent = "ERROR_FIXING" -> "search"
                                 [] OTHER -> "work", <<>>)
        /\ ret' = [op |-> "understand_input", intent |-> intent]
        /\ UNCHANGED <<learner, processing, auth, suggestions>>

(* Step 2: search_error_solution(user_input, {"engine": "unreal"}) *)
WorkerSearch ==
    \E i \in 1..Len(workers) :
        /\ workers[i].pc = "search"
        /\ \E replies \in (RepliesFor(workers[i].user_input)
                            \cap {NoReplies, AllAnswer,
                                  [AllAnswer EXCEPT !.llm = [kind |-> "json",
                                                             content |-> NotADict]]}) :
            /\ search_error_solution(workers[i].user_input, [engine |-> "unreal"], replies)
            /\ workers' = Moved(i, IF ret'.raised = None THEN "work" ELSE "except", <<>>)
        /\ UNCHANGED <<searching, processing>>

(* Steps 3 and 4: the work, the test plan and the tests; any of them can raise *)
WorkerWork ==
    \E i \in 1..Len(workers), raises \in BOOLEAN, test_results \in TestResults :
        /\ workers[i].pc = "work"
        /\ workers' = IF raises THEN Moved(i, "except", <<>>)
                      ELSE Moved(i, "end", [outcome |-> test_results])
        /\ ret' = [op |-> "execute_automated_tests", raised |-> raises]
        /\ UNCHANGED <<learner, processing, auth, suggestions>>

(* end_operation when the store fails (sqlite3.OperationalError): in       *)
(* _store_metrics, before the row is committed, or in _analyze_performance, *)
(* after it                                                                 *)
end_operation_fails(operation_id, success, error_message, confidence_score, quality_score, committed) ==
    LET found == FindOperation(performance_history, operation_id) IN
    /\ found # <<>>
    /\ ~HasId(performance_metrics, operation_id)
    /\ IF committed
       THEN /\ performance_metrics' =
                    Append(performance_metrics,
                           MetricsRow(operation_id, found[1], clock, success, error_message,
                                      confidence_score, quality_score, 0))
            /\ closed' = Append(closed, [operation_type |-> found[1].operation_type,
                                         success |-> success])
       ELSE UNCHANGED <<performance_metrics, closed>>
    /\ ret' = [op |-> "end_operation", started |-> TRUE, stored |-> committed,
               raised |-> "sqlite3.OperationalError"]
    /\ UNCHANGED <<clock, session, performance_history, success_rate_cache,
                   learning_entries, error_patterns, optimization_insights, outcomes,
                   missed, threads, searching, auth, suggestions>>

(* Step 5: the end_operation of the success path, then the auto-save and *)
(* the statistics, which are handed to the main loop                     *)
WorkerEnd ==
    \E i \in 1..Len(workers) :
        /\ workers[i].pc = "end"
        /\ LET test_results == workers[i].outcome
               success == 10 * test_results.passed >= 8 * test_results.total_tests
               quality_score == IF test_results.total_tests > 0
                                THEN Frac(test_results.passed, test_results.total_tests)
                                ELSE Zero
           IN  \/ end_operation(workers[i].operation_id, success, None, Zero,
                                quality_score, 0)
               \/ \E committed \in BOOLEAN :
                    end_operation_fails(workers[i].operation_id, success, None, Zero,
                                        quality_score, committed)
        /\ workers' = Moved(i, IF ret'.raised = None THEN "finally" ELSE "except",
                            [ends |-> workers[i].ends + 1,
                             reapplied |-> workers[i].reapplied
                                \/ HasId(performance_metrics, workers[i].operation_id)])
        /\ UNCHANGED processing

(* except Exception: end_operation(operation_id, success=False, *)
(* error_message=str(e)); what it raises leaves the thread      *)
WorkerExcept ==
    \E i \in 1..Len(workers) :
        /\ workers[i].pc = "except"
        /\ end_operation(workers[i].operation_id, FALSE, "boom", Zero, Zero, 0)
        /\ workers' = Moved(i, "finally",
                            [ends |-> workers[i].ends + 1,
                             reapplied |-> workers[i].reapplied
                                \/ HasId(performance_metrics, workers[i].operation_id)])
        /\ UNCHANGED processing

(* finally: self.processing = False, and the thread ends *)
WorkerFinally ==
    \E i \in 1..Len(workers) :
        /\ workers[i].pc = "finally"
        /\ processing' = FALSE
        /\ workers' = SubSeq(workers, 1, i - 1) \o SubSeq(workers, i + 1, Len(workers))
        /\ ret' = [op |-> "process_complete_workflow",
                   operation_id |-> workers[i].operation_id,
                   ends |-> workers[i].ends,
                   reapplied |-> workers[i].reapplied]
        /\ UNCHANGED <<learner, auth, suggestions>>

(* The steps of the worker threads *)
WorkerStep ==
    \/ WorkerStart
    \/ WorkerUnderstand
    \/ WorkerSearch
    \/ WorkerWork
    \/ WorkerEnd
    \/ WorkerExcept
    \/ WorkerFinally

----------------------------------------------------------------------------
(* Specifications *)

(* The metrics store and its report *)
NextMetrics ==
    \/ Tick
    \/ StartOperation
    \/ EndOperation
    \/ GetPerformanceReport

SpecMetrics == Init /\ [][NextMetrics]_vars

(* The metrics store and the reflection pass, which share optimization_insights *)
NextReflection ==
    \/ Tick
    \/ StartOperation
    \/ EndOperation
    \/ setup_session
    \/ ReflectAndImprove

SpecReflection == Init /\ [][NextReflection]_vars

(* The learning store, the local lookup and the external search *)
NextLearning ==
    \/ Tick
    \/ SearchErrorSolution
    \/ RecordSolutionSuccess

SpecLearning == Init /\ [][NextLearning]_vars

(* The interactive path step by step, against the aggregate reads *)
NextConcurrent ==
    \/ Tick
    \/ StartOperation
    \/ BeginEndOperation
    \/ EndStore
    \/ EndAnalyze
    \/ GetPerformanceReport
    \/ ReflectAndImprove

SpecConcurrent == Init /\ [][NextConcurrent]_vars

(* The learning store on its own, and its ranking *)
NextStore ==
    \/ Tick
    \/ StoreLearnedSolution
    \/ RecordSolutionSuccess
    \/ GetTopSolutions

SpecStore == Init /\ [][NextStore]_vars

(* Two callers of record_solution_success, one of them step by step, on a  *)
(* table of MaxEntries rows                                                *)
StoreOnlyEntry == StoreLearnedSolution /\ Len(learning_entries') <= MaxEntries

NextRace ==
    \/ StoreOnlyEntry
    \/ RecordSolutionSuccess
    \/ BeginRecordSolutionSuccess
    \/ RecordUpdate

SpecRace == Init /\ [][NextRace]_vars

(* The reflection thread: the timer and the pass are never held back for ever *)
NextScheduler ==
    \/ Tick
    \/ setup_session
    \/ TimerFires
    \/ ReflectionPass

SpecScheduler ==
    Init /\ [][NextScheduler]_vars /\ WF_vars(TimerFires) /\ WF_vars(ReflectionPass)

(* The priority of suggestions: calls of _calculate_suggestion_priority *)

SpecSuggestions == Init /\ [][CalculateSuggestionPriority]_vars

(* The user and session store: registration, login, tracking, logout *)
NextAuth ==
    \/ RegisterUser
    \/ Login
    \/ \E session_token \in SessionTokens, details \in TrackedData :
            track_action(session_token, "create", details)
    \/ \E session_token \in SessionTokens, asset_data \in TrackedData :
            track_asset_created(session_token, asset_data)
    \/ \E session_token \in SessionTokens : track_feature_used(session_token, "f")
    \/ \E session_token \in SessionTokens, error_data \in TrackedData :
            track_error(session_token, error_data)
    \/ Logout

SpecAuth == Init /\ [][NextAuth]_vars

(* One caller of search_error_solution, await by await *)
NextSearch ==
    \/ Tick
    \/ BeginSearch
    \/ StackOverflowAnswers
    \/ GithubAnswers
    \/ SynthesisAnswers

SpecSearch == Init /\ [][NextSearch]_vars

(* Every writer and reader of the shared store side by side *)
NextInsights ==
    \/ Tick
    \/ (performance_history = <<>> /\ StartOperation)
    \/ EndOperation
    \/ GetPerformanceReport
    \/ GetTopSolutions
    \/ setup_session
    \/ ReflectAndImprove
    \/ SearchAnswered
    \/ RecordSolutionSuccess

SpecInsights == Init /\ [][NextInsights]_vars

(* The window and its worker threads; a thread that can take a step is *)
(* not held back for ever                                              *)
NextWorkflow ==
    \/ Tick
    \/ Submit
    \/ WorkerStart
    \/ WorkerUnderstand
    \/ WorkerSearch
    \/ WorkerWork
    \/ WorkerEnd
    \/ WorkerExcept
    \/ WorkerFinally

SpecWorkflow == Init /\ [][NextWorkflow]_vars /\ WF_vars(WorkerStep)

(* Every operation of SelfImprovingAI *)
Next == NextMetrics \/ NextReflection \/ NextLearning \/ NextConcurrent \/ NextStore
            \/ NextRace \/ NextScheduler \/ CalculateSuggestionPriority \/ NextAuth \/ NextSearch \/ NextInsights \/ NextWorkflow

Spec == Init /\ [][Next]_vars

----------------------------------------------------------------------------
(* Properties of the learning store and the search (SpecLearning) *)

Mean(o) == Frac(SumInt(o), Len(o))

(* C1: every learning entry's times_used is the number n of outcomes reported *)
(* for it since it was recorded, and, when n > 0, its effectiveness_score is  *)
(* the arithmetic mean of those outcomes (worked = 1, not worked = 0).        *)
C1_RunningAverage ==
    \A i \in 1..Len(learning_entries) :
        LET e == learning_entries[i]
            o == outcomes[e.entry_id]
        IN /\ e.times_used = Len(o)
           /\ Len(o) > 0 => e.effectiveness_score = Mean(o)

C1_Witness ==
    /\ ret.op = "record_solution_success"
    /\ \E i \in 1..Len(learning_entries) :
          /\ outcomes[learning_entries[i].entry_id] = <<1, 0>>
          /\ learning_entries[i].effectiveness_score = <<1, 2>>
          /\ learning_entries[i].times_used = 2

(* C2: a search_error_solution whose local lookup finds one or more entries  *)
(* returns exactly those entries, invokes no external collaborator, raises   *)
(* nothing and leaves the learning store as it was.                          *)
C2_ShortCircuit ==
    [][(/\ ret'.op = "search_error_solution"
        /\ _search_local_knowledge(ret'.error_message) # <<>>)
       => /\ ret'.external = {}
          /\ ret'.raised = None
          /\ ret'.value = _search_local_knowledge(ret'.error_message)
          /\ learning_entries' = learning_entries]_vars

C2_Witness ==
    /\ ret.op = "search_error_solution"
    /\ ret.error_message = <<"b">>
    /\ ret.external = {}
    /\ Len(ret.value) = 2
    /\ ret.value[1].source = "local_knowledge"
    /\ ret.value[1].avg_fix_time = 2

(* C3: once the miss path of search_error_solution(p) has completed and its  *)
(* result was stored, a later search_error_solution(p) is answered from the  *)
(* local store and invokes no external collaborator.                         *)
C3_CachedAfterMiss ==
    [][(/\ ret'.op = "search_error_solution"
        /\ ret'.error_message \in missed)
       => /\ ret'.external = {}
          /\ ret'.path = "hit"]_vars

(* C4: on the miss path a failing search collaborator contributes no result, *)
(* the results of every collaborator that did not fail are in the list, the  *)
(* list is what the call returns, and nothing a search collaborator does     *)
(* makes the call raise (a raise comes only from a synthesized value that is *)
(* not an object).                                                           *)
SourceName(c) == IF c = "so" THEN "stackoverflow" ELSE "github"

Titles(results) == [i \in 1..Len(results) |-> results[i].title]

C5_FallbackAsStated ==
    (ret.op = "search_error_solution" /\ ret.path = "miss" /\ ret.replies.llm_failed) =>
        ret.synthesized =
            [recommended_solution |-> "Manual review required",
             confidence |-> <<3, 10>>,
             reasoning |-> "Unable to synthesize solutions",
             alternatives |-> <<>>,
             estimated_effort |-> "unknown"]

(* C5, amended: in those cases the synthesized value is exactly the record   *)
(* recommended_solution = "Manual review required", confidence = 0.3,        *)
(* reasoning = "Unable to synthesize solutions", alternative_solutions = [], *)
(* estimated_fix_time = "unknown".                                           *)
C5_Fallback ==
    (ret.op = "search_error_solution" /\ ret.path = "miss" /\ ret.replies.llm_failed) =>
        ret.synthesized =
            [recommended_solution |-> "Manual review required",
             confidence |-> <<3, 10>>,
             reasoning |-> "Unable to synthesize solutions",
             alternative_solutions |-> <<>>,
             estimated_fix_time |-> "unknown"]

C5_Witness ==
    /\ ret.op = "search_error_solution"
    /\ ret.path = "miss"
    /\ ret.replies.llm_failed
    /\ ret.synthesized.confidence = <<3, 10>>
    /\ \E i \in 1..Len(learning_entries) :
          learning_entries[i].solution = JsonDumps(ret.synthesized)

----------------------------------------------------------------------------
(* Properties of the metrics store and the insights (SpecMetrics, SpecReflection) *)

(* C6: the optimization_insights table holds at most one row per description. *)
C6_OneRowPerDescription ==
    \A i, j \in 1..Len(optimization_insights) :
        optimization_insights[i].description = optimization_insights[j].description
            => i = j

ClosedOfType(t) == SelectSeq(closed, LAMBDA c : c.operation_type = t)
ClosedSuccesses(t) == Len(SelectSeq(closed, LAMBDA c : c.operation_type = t /\ c.success))

(* C7: a performance report whose window covers every persisted record has, *)
(* for each operation type T, no element when no record of T was closed and *)
(* otherwise one element with total_count = the number of closed records of *)
(* T, success_count = the number of those closed with success, and          *)
(* success_rate = success_count / total_count.                              *)
C7_Aggregate ==
    (/\ ret.op = "get_performance_report"
     /\ \A i \in 1..Len(performance_metrics) :
           InWindow(performance_metrics[i].timestamp, ret.value.generated_at,
                    ret.value.period_days))
    => \A t \in OpTypes :
          LET n == Len(ClosedOfType(t))
              k == ClosedSuccesses(t)
              of_t == {o \in ret.value.operations : o.type = t}
          IN IF n = 0 THEN of_t = {}
             ELSE /\ Cardinality(of_t) = 1
                  /\ \A o \in of_t : /\ o.total_count = n
                                     /\ o.success_count = k
                                     /\ o.success_rate[1] * n = k * o.success_rate[2]

C7_Witness ==
    /\ ret.op = "get_performance_report"
    /\ \E o \in ret.value.operations :
          /\ o.type = "X"
          /\ o.total_count = 2
          /\ o.success_count = 1
          /\ o.success_rate = <<1, 2>>

LowRate(rows, t) == FLess(SuccessRate(OfType(rows, t)), LowSuccessThreshold)

C9_EndUnknownIsNoOp ==
    [][(ret'.op = "end_operation" /\ ~ret'.started)
       => /\ ret'.raised = None
          /\ ~ret'.stored
          /\ UNCHANGED <<performance_metrics, optimization_insights,
                         performance_history, success_rate_cache>>]_vars

C9_Witness ==
    /\ ret.op = "end_operation"
    /\ ~ret.started
    /\ Len(performance_history) = 2
    /\ Len(performance_metrics) = 1
    /\ Len(optimization_insights) > 0

(* C10: in every persisted record, success implies that no error message is *)
(* stored.                                                                  *)
C10_NoErrorOnSuccess ==
    \A i \in 1..Len(performance_metrics) :
        performance_metrics[i].success => performance_metrics[i].error_message = None

----------------------------------------------------------------------------
(* Operation ids (SpecMetrics) *)

(* C11: any two start_operation calls return distinct operation ids: the    *)
(* started operations carry pairwise distinct ids.                          *)
C11_DistinctIds ==
    \A i, j \in 1..Len(performance_history) :
        performance_history[i].operation_id = performance_history[j].operation_id
            => i = j

----------------------------------------------------------------------------
(* The learning store under record and search (SpecLearning) *)

EntryIds(entries) == {entries[i].entry_id : i \in 1..Len(entries)}

(* C13: record_solution_success never creates a learning entry: the set of  *)
(* entry ids and the number of rows are unchanged by every call, and when   *)
(* no stored problem text contains the given text (its first 50 characters) *)
(* no entry's times_used or effectiveness_score changes.                    *)
C13_RecordCreatesNothing ==
    [][ret'.op = "record_solution_success"
       => /\ EntryIds(learning_entries') = EntryIds(learning_entries)
          /\ Len(learning_entries') = Len(learning_entries)
          /\ (\A i \in 1..Len(learning_entries) :
                 ~Contains(learning_entries[i].problem, Take(ret'.problem, LocalPrefixLen)))
             => \A i \in 1..Len(learning_entries) :
                   /\ learning_entries'[i].times_used = learning_entries[i].times_used
                   /\ learning_entries'[i].effectiveness_score =
                          learning_entries[i].effectiveness_score]_vars

C13_Witness ==
    /\ ret.op = "record_solution_success"
    /\ ret.problem = <<"b", "a">>
    /\ ~ret.updated
    /\ Len(learning_entries) = 1
    /\ learning_entries[1].problem = <<"b">>

(* C14: every completion of the miss path of search_error_solution leaves   *)
(* exactly one learning entry written by the call: its problem is the       *)
(* problem text, times_used = 0, effectiveness_score = 0, its solution is   *)
(* the synthesized value (real or fallback); every other row is a row the   *)
(* table held before.                                                       *)
C14_MissWritesOneEntry ==
    [][(/\ ret'.op = "search_error_solution"
        /\ ret'.path = "miss"
        /\ ret'.raised = None)
       => LET id == _generate_id(ret'.error_message, clock)
              written == {i \in 1..Len(learning_entries') :
                             learning_entries'[i].entry_id = id}
          IN /\ Cardinality(written) = 1
             /\ \A i \in written :
                   /\ learning_entries'[i].problem = ret'.error_message
                   /\ learning_entries'[i].times_used = 0
                   /\ learning_entries'[i].effectiveness_score = Zero
                   /\ learning_entries'[i].solution = JsonDumps(ret'.synthesized)
             /\ \A i \in (1..Len(learning_entries')) \ written :
                   \E j \in 1..Len(learning_entries) :
                       learning_entries[j] = learning_entries'[i]
             /\ Len(learning_entries') <= Len(learning_entries) + 1]_vars

C14_Witness ==
    /\ ret.op = "search_error_solution"
    /\ ret.path = "miss"
    /\ ret.raised = None
    /\ ~ret.replies.llm_failed
    /\ Len(learning_entries) = 1
    /\ learning_entries[1].problem = ret.error_message
    /\ learning_entries[1].times_used = 0
    /\ learning_entries[1].solution = JsonDumps(ret.synthesized)
    /\ ret.synthesized.confidence = <<9, 10>>

(* C15: whatever the external collaborators answer, search_error_solution   *)
(* and reflect_and_improve raise nothing.                                   *)
C15_CollaboratorsNeverRaise ==
    ret.op \in {"search_error_solution", "reflect_and_improve"}
        => Get(ret, "raised", None) = None

(* C18: an empty problem text matches no stored entry: the local lookup of  *)
(* search_error_solution("") finds nothing, and                             *)
(* record_solution_success("", worked) modifies no entry.                   *)
C18_EmptyMatchesNothing ==
    [][/\ (ret'.op = "search_error_solution" /\ ret'.error_message = <<>>)
          => ret'.path = "miss"
       /\ (ret'.op = "record_solution_success" /\ ret'.problem = <<>>)
          => learning_entries' = learning_entries]_vars

(* C19: for every learning entry id, times_used never decreases.            *)
C19_TimesUsedMonotone ==
    [][\A i \in 1..Len(learning_entries), j \in 1..Len(learning_entries') :
          learning_entries'[j].entry_id = learning_entries[i].entry_id
              => learning_entries'[j].times_used >= learning_entries[i].times_used]_vars

----------------------------------------------------------------------------
(* Aggregate reads against the interactive path (SpecConcurrent) *)

----------------------------------------------------------------------------
(* The reflection thread (SpecScheduler) *)

(* C16: the reflection thread is always IDLE or RUNNING; it becomes RUNNING *)
(* only from IDLE and only when its timer fires; a pass, whether it returns *)
(* or raises, leaves it IDLE; and it is RUNNING again and again and IDLE    *)
(* again and again, for ever.                                               *)
C16_SchedulerCycles ==
    /\ [](reflection_loop.state \in {"IDLE", "RUNNING"})
    /\ [][/\ (reflection_loop.state # "RUNNING" /\ reflection_loop'.state = "RUNNING")
             => (reflection_loop.state = "IDLE" /\ ret'.op = "time.sleep")
          /\ (reflection_loop.state = "RUNNING" /\ reflection_loop' # reflection_loop)
             => reflection_loop'.state = "IDLE"]_vars
    /\ []<>(reflection_loop.state = "RUNNING")
    /\ []<>(reflection_loop.state = "IDLE")

C16_Witness ==
    /\ reflection_loop.state = "RUNNING"
    /\ reflection_loop.last = "raised"

----------------------------------------------------------------------------
(* The ranking of the learning store (SpecStore) *)

(* C17: get_top_solutions(limit) returns at most limit elements, each of    *)
(* them a stored entry with times_used > 0 for which an outcome was         *)
(* reported, in the order effectiveness_score descending and, among equal   *)
(* scores, times_used descending.                                           *)
C17_TopSolutions ==
    ret.op = "get_top_solutions"
    => LET v == ret.value IN
       /\ Len(v) <= ret.limit
       /\ \A i \in 1..Len(v) :
             /\ v[i].times_used > 0
             /\ \E k \in 1..Len(learning_entries) :
                   /\ learning_entries[k].problem = v[i].problem
                   /\ learning_entries[k].effectiveness_score = v[i].effectiveness
                   /\ learning_entries[k].times_used = v[i].times_used
                   /\ outcomes[learning_entries[k].entry_id] # <<>>
       /\ \A i, j \in 1..Len(v) :
             i < j => \/ FLess(v[j].effectiveness, v[i].effectiveness)
                      \/ /\ v[i].effectiveness = v[j].effectiveness
                         /\ v[i].times_used >= v[j].times_used

C17_Witness ==
    /\ ret.op = "get_top_solutions"
    /\ ret.limit = 10
    /\ Len(learning_entries) = 3
    /\ Len(ret.value) = 2
    /\ ret.value[1].effectiveness = One
    /\ ret.value[2].effectiveness = <<1, 2>>
    /\ ret.value[2].times_used = 2

----------------------------------------------------------------------------
(* The learning store under two callers (SpecRace) *)

(* C20: every learning entry has 0 <= effectiveness_score <= 1 and          *)
(* times_used >= 0, in every state, whatever the interleaving of the store  *)
(* and record calls.                                                        *)
C20_ScoreInRange ==
    \A i \in 1..Len(learning_entries) :
        /\ learning_entries[i].times_used >= 0
        /\ ~FLess(learning_entries[i].effectiveness_score, Zero)
        /\ ~FLess(One, learning_entries[i].effectiveness_score)

C20_Witness ==
    /\ ret.op = "record_solution_success"
    /\ recording = NotRunning
    /\ \E i \in 1..Len(learning_entries) :
          /\ learning_entries[i].times_used = 1
          /\ learning_entries[i].effectiveness_score = One
          /\ Len(outcomes[learning_entries[i].entry_id]) = 2

----------------------------------------------------------------------------
(* Closing an operation twice (SpecMetrics) *)

(* C21: a record is closed at most once and is immutable afterwards: every  *)
(* end_operation raises nothing, the table never holds two rows with one    *)
(* operation_id, and a row once persisted keeps its values.                 *)
C21_ClosedOnce ==
    [][ret'.op = "end_operation"
       => /\ ret'.raised = None
          /\ \A i \in 1..Len(performance_metrics) :
                performance_metrics'[i] = performance_metrics[i]
          /\ \A i, j \in 1..Len(performance_metrics') :
                performance_metrics'[i].operation_id = performance_metrics'[j].operation_id
                    => i = j]_vars

----------------------------------------------------------------------------
(* The reflection pass on a failed call (SpecReflection) *)

(* C24: when the external reflection call fails (it raises, answers with a  *)
(* non-success status or with text that is not JSON), reflect_and_improve   *)
(* returns exactly {overall_health: "unknown", message: "Unable to perform  *)
(* reflection"} and leaves the optimization_insights table as it was.       *)
C24_FallbackOnFailure ==
    [][(ret'.op = "reflect_and_improve" /\ ret'.call_failed)
       => /\ ret'.value = [overall_health |-> "unknown",
                           message |-> "Unable to perform reflection"]
          /\ optimization_insights' = optimization_insights]_vars

C24_Witness ==
    /\ ret.op = "reflect_and_improve"
    /\ session
    /\ ret.call_failed
    /\ ret.value.overall_health = "unknown"
    /\ \E i \in 1..Len(optimization_insights) :
          optimization_insights[i].description = "cache results"

----------------------------------------------------------------------------
(* Two callers of record_solution_success (SpecRace) *)

(* C26: the running-average update is atomic per entry: whenever no         *)
(* record_solution_success is in progress, every entry's times_used is the  *)
(* number of outcomes reported for it and its effectiveness_score is their  *)
(* mean, also after two calls on the same entry have overlapped.            *)
C26_NoLostUpdate ==
    recording = NotRunning
    => \A i \in 1..Len(learning_entries) :
          LET reported == outcomes[learning_entries[i].entry_id] IN
          /\ learning_entries[i].times_used = Len(reported)
          /\ reported # <<>> => learning_entries[i].effectiveness_score = Mean(reported)

----------------------------------------------------------------------------
(* The reflection pass on a successful answer (SpecReflection) *)

Priorities(report) == Get(report, "improvement_priorities", <<>>)

(* C23: in every reflection pass in which the text-generation collaborator  *)
(* answers with status 200 and a report (a JSON object whose improvement    *)
(* priorities are objects), also in a pass made before any search has run,  *)
(* reflect_and_improve returns that report and every item of its            *)
(* improvement priorities has a row in optimization_insights.               *)
C23_ReportPersisted ==
    [][(/\ ret'.op = "reflect_and_improve"
        /\ ret'.answered.ok
        /\ \A k \in 1..Len(Priorities(ret'.answered.report)) :
              IsDict(Priorities(ret'.answered.report)[k]))
       => /\ ret'.value = ret'.answered.report
          /\ \A k \in 1..Len(Priorities(ret'.answered.report)) :
                \E i \in 1..Len(optimization_insights') :
                    optimization_insights'[i].description =
                        Priorities(ret'.answered.report)[k].recommended_action]_vars

----------------------------------------------------------------------------
(* Properties of the suggestion priority (SpecSuggestions) *)

LevelOf(improvement, key) == IF key \in DOMAIN improvement THEN improvement[key] ELSE "medium"

Rank(level) == CASE level = "low" -> 1 [] level = "medium" -> 2 [] level = "high" -> 3

Expected(s) ==
    LET total == Rank(LevelOf(s.improvement, "impact"))
                    + (4 - Rank(LevelOf(s.improvement, "effort")))
    IN  IF total > 5 THEN 5 ELSE total

(* C30: for every impact and effort in low, medium, high, each medium when  *)
(* missing, _calculate_suggestion_priority returns an integer in 1..5 equal *)
(* to min(5, impact_score + effort_score) with impact scored 1, 2, 3 and    *)
(* effort scored 3, 2, 1; it never decreases when impact rises and never    *)
(* increases when effort rises.                                             *)
C30_Priority ==
    /\ \A i \in 1..Len(suggestions) :
        /\ suggestions[i].priority \in 1..5
        /\ suggestions[i].priority = Expected(suggestions[i])
    /\ \A i, j \in 1..Len(suggestions) :
        LET a == suggestions[i]
            b == suggestions[j]
        IN  /\ (LevelOf(a.improvement, "effort") = LevelOf(b.improvement, "effort")
                /\ Rank(LevelOf(a.improvement, "impact")) <= Rank(LevelOf(b.improvement, "impact")))
                    => a.priority <= b.priority
            /\ (LevelOf(a.improvement, "impact") = LevelOf(b.improvement, "impact")
                /\ Rank(LevelOf(a.improvement, "effort")) <= Rank(LevelOf(b.improvement, "effort")))
                    => a.priority >= b.priority

(* A call with the impact missing and the effort low, after a call that hit *)
(* the cap of 5                                                              *)
C30_Witness ==
    /\ Len(suggestions) = 2
    /\ suggestions[1].improvement = [impact |-> "high", effort |-> "low"]
    /\ suggestions[1].priority = 5
    /\ DOMAIN suggestions[2].improvement = {"effort"}
    /\ suggestions[2].improvement["effort"] = "low"
    /\ suggestions[2].priority = 5

----------------------------------------------------------------------------
(* Properties of the user and session store (SpecAuth) *)

TrackingOps == {"track_action", "track_asset_created", "track_feature_used", "track_error"}

Completed(sessions, session_token) ==
    \E k \in 1..Len(sessions) :
        /\ sessions[k].session_token = session_token
        /\ sessions[k].status = "completed"

(* C29: a session token is usable only between its login and its logout.   *)
(* After logout(token) succeeds the token is not in active_sessions, and a  *)
(* token whose session is completed is never active again; a logout of a    *)
(* token that is not active returns success false with the error "Invalid  *)
(* session" and changes no state; track_action, track_asset_created,        *)
(* track_feature_used and track_error with a token that is not active       *)
(* change nothing.                                                          *)
C29_TokenLifetime ==
    [][/\ (ret'.op = "logout" /\ ret'.raised = None /\ ret'.value.success)
            => /\ ret'.session_token \in DOMAIN active_sessions
               /\ ret'.session_token \notin DOMAIN active_sessions'
               /\ Completed(user_sessions', ret'.session_token)
       /\ \A t \in SessionTokens : Completed(user_sessions', t) => t \notin DOMAIN active_sessions'
       /\ (ret'.op = "logout" /\ ret'.session_token \notin DOMAIN active_sessions)
            => /\ ret'.raised = None
               /\ ret'.value = [success |-> FALSE, error |-> "Invalid session"]
               /\ UNCHANGED <<auth, learner, app, suggestions>>
       /\ (ret'.op \in TrackingOps /\ ret'.session_token \notin DOMAIN active_sessions)
            => UNCHANGED <<auth, learner, app, suggestions>>]_vars

(* A second logout of a token whose logout has succeeded, refused, while *)
(* another session is still active                                       *)
C29_Witness ==
    /\ ret.op = "logout"
    /\ ret.raised = None
    /\ ~ret.value.success
    /\ ret.value.error = "Invalid session"
    /\ Completed(user_sessions, ret.session_token)
    /\ DOMAIN active_sessions # {}

----------------------------------------------------------------------------
(* Properties of the search, await by await (SpecSearch) *)

InFlight == IF searching.stage = "none" THEN {} ELSE searching.in_flight

(* C25: on the miss path of search_error_solution the collaborators are    *)
(* queried concurrently: a search that takes the miss path has passed      *)
(* through a state in which two collaborator calls were in flight at once. *)
C25_ConcurrentCollaborators ==
    [][(ret'.op = "search_error_solution" /\ ret'.path = "miss")
            => searching.peak >= 2]_vars

(* What the code does instead: never more than one collaborator call in flight *)
C25_OneInFlight == Cardinality(InFlight) <= 1

----------------------------------------------------------------------------
(* Properties of the insights table under every operation (SpecInsights) *)

Descriptions(insights) == {insights[i].description : i \in 1..Len(insights)}

RuleDescriptions(operation_type) == {"Low success rate for " \o operation_type, "Slow performance for " \o operation_type}

----------------------------------------------------------------------------
(* Properties of the window and its worker threads (SpecWorkflow) *)

RowsOf(operation_id) == {i \in 1..Len(performance_metrics) : performance_metrics[i].operation_id = operation_id}

(* C27: at most one process_complete_workflow worker runs at any time:     *)
(* submit starts a worker only when the processing flag is false (and the  *)
(* input is not blank) and sets the flag with it, a submit while           *)
(* processing is true starts nothing, and every worker, whether it         *)
(* succeeds or raises, eventually resets processing to false, after which  *)
(* no worker is left.                                                      *)
C27_OneWorker ==
    /\ [](Len(workers) <= 1)
    /\ [](processing <=> workers # <<>>)
    /\ [][ret'.op = "submit"
            => /\ ret'.started => (~processing /\ processing' /\ Len(workers') = 1)
               /\ processing => (~ret'.started /\ UNCHANGED app)]_vars
    /\ (processing ~> ~processing)

(* A submit accepted after a worker whose workflow raised and was closed *)
(* by the exception handler                                              *)
C27_Witness ==
    /\ ret.op = "submit"
    /\ ret.started
    /\ processing
    /\ Len(workers) = 1
    /\ \E i \in 1..Len(performance_metrics) :
        /\ performance_metrics[i].operation_type = "complete_workflow"
        /\ performance_metrics[i].error_message = "boom"

(* C28: every run of process_complete_workflow closes the operation it      *)
(* opened exactly once: when the run is over exactly one closed record of   *)
(* its operation id is persisted, and end_operation was never applied to    *)
(* the id when a record of it was already persisted.                        *)
C28_ClosedExactlyOnce ==
    [][ret'.op = "process_complete_workflow"
            => /\ Cardinality(RowsOf(ret'.operation_id)) = 1
               /\ ~ret'.reapplied]_vars

====
